---- MODULE Spec2Model ----
(***************************************************************************)
(* pdf-encrypt-lite: the MD5 digest, the RC4 stream cipher and the key     *)
(* derivation of the PDF Standard Security Handler (revision 3, 128 bit)   *)
(* as implemented in crypto-minimal.js and pdf-encrypt.js.                 *)
(*                                                                         *)
(* Byte buffers (Uint8Array) are sequences of integers in 0..255; the JS   *)
(* index k of a buffer is the index k+1 of the sequence.                   *)
(*                                                                         *)
(* A 32-bit word is the pair <<hi, lo>> of its two 16-bit halves, so that  *)
(* every intermediate value stays inside the range of the model checker's  *)
(* integers while the arithmetic is exactly the 32-bit arithmetic of the   *)
(* code (additions wrap modulo 2^32).                                      *)
(***************************************************************************)
EXTENDS Integers, Sequences, FiniteSets, TLC

----------------------------------------------------------------------------
(* Machine arithmetic.                                                     *)

Pow2(n) == 2 ^ n

RECURSIVE BitAndN(_, _, _)
\* the bitwise AND of two naturals below 2^n, bit by bit
BitAndN(a, b, n) ==
  IF n = 0 THEN 0
  ELSE (a % 2) * (b % 2) + 2 * BitAndN(a \div 2, b \div 2, n - 1)

\* a function on 1..n as the explicit sequence of its n values
Tabulate(f, n) == SubSeq(f, 1, n)

\* In the loops below a range of iterations lo..hi-1 is run as its first half
\* and then its second half, the second starting from the value the first has
\* produced: the iterations happen in the order of the code, one after the
\* other. A loop begins by comparing the value it starts from with itself (v
\* # v, which holds of no value), so that this value is computed before the
\* loop goes on; functions that are handed a computed buffer do the same.

\* the table of the AND of two bytes: AndTable[a + 1][b + 1] = a & b
AndTable ==
  Tabulate([a \in 1..256 |->
              Tabulate([b \in 1..256 |-> BitAndN(a - 1, b - 1, 8)], 256)], 256)

\* x & y and x ^ y on bytes
And8(x, y) == AndTable[x + 1][y + 1]
\* (| written for ^)
Or8(x, y) == x + y - And8(x, y)
Xor8(x, y) == x + y - 2 * And8(x, y)

\* AND, OR, XOR, NOT on 16-bit halves
And16(x, y) == And8(x % 256, y % 256) + 256 * And8(x \div 256, y \div 256)
Or16(x, y) == x + y - And16(x, y)
Xor16(x, y) == x + y - 2 * And16(x, y)
Not16(x) == Pow2(16) - 1 - x

\* x & y, x | y, x ^ y, ~x on 32-bit words
And32(x, y) == << And16(x[1], y[1]), And16(x[2], y[2]) >>
Or32(x, y) == << Or16(x[1], y[1]), Or16(x[2], y[2]) >>
Xor32(x, y) == << Xor16(x[1], y[1]), Xor16(x[2], y[2]) >>
Not32(x) == << Not16(x[1]), Not16(x[2]) >>

\* (x + y) >>> 0: addition modulo 2^32
Add32(x, y) ==
  LET lo == x[2] + y[2]
      hi == x[1] + y[1] + (lo \div Pow2(16))
  IN  << hi % Pow2(16), lo % Pow2(16) >>

\* (the shift left out)
ShrByteNoShift(n, sh) == n % 256

\* (n >> sh) & 0xFF for a non-negative n below 2^31, where ToInt32 changes
\* nothing: bits sh..sh+7 of n
ShrByte(n, sh) == (n \div Pow2(sh)) % 256

\* DataView.setUint32(pos, w, true): the four bytes of w, low byte first
LE32(w) == << w[2] % 256, w[2] \div 256, w[1] % 256, w[1] \div 256 >>

----------------------------------------------------------------------------
(* Buffers (Uint8Array).                                                   *)

Min(a, b) == IF a < b THEN a ELSE b

\* new Uint8Array(n): n zero bytes
Zeros(n) == Tabulate([k \in 1..n |-> 0], n)

\* buf.slice(from, to)
Slice(buf, from, to) == SubSeq(buf, from + 1, Min(to, Len(buf)))

\* buf.set(src, offset): src copied into buf from index offset on
SetAt(buf, src, offset) ==
  Tabulate([k \in 1..Len(buf) |->
              IF k > offset /\ k <= offset + Len(src) THEN src[k - offset]
              ELSE buf[k]], Len(buf))

\* buf[index] = byte
SetByte(buf, index, byte) == [buf EXCEPT ![index + 1] = byte]

----------------------------------------------------------------------------
(* md5 (crypto-minimal.js)                                                 *)

S == << 7, 12, 17, 22, 7, 12, 17, 22, 7, 12, 17, 22, 7, 12, 17, 22,
        5, 9, 14, 20, 5, 9, 14, 20, 5, 9, 14, 20, 5, 9, 14, 20,
        4, 11, 16, 23, 4, 11, 16, 23, 4, 11, 16, 23, 4, 11, 16, 23,
        6, 10, 15, 21, 6, 10, 15, 21, 6, 10, 15, 21, 6, 10, 15, 21 >>

\* the 64 additive constants 0xd76aa478, 0xe8c7b756, ... as <<hi, lo>>
K == <<
        <<55146, 42104>>, <<59591, 46934>>, <<9248, 28891>>, <<49597, 52974>>,
        <<62844, 4015>>, <<18311, 50730>>, <<43056, 17939>>, <<64838, 38145>>,
        <<27008, 39128>>, <<35652, 63407>>, <<65535, 23473>>, <<35164, 55230>>,
        <<27536, 4386>>, <<64920, 29075>>, <<42617, 17294>>, <<18868, 2081>>,
        <<63006, 9570>>, <<49216, 45888>>, <<9822, 23121>>, <<59830, 51114>>,
        <<54831, 4189>>, <<580, 5203>>, <<55457, 59009>>, <<59347, 64456>>,
        <<8673, 52710>>, <<49975, 2006>>, <<62677, 3463>>, <<17754, 5357>>,
        <<43491, 59653>>, <<64751, 41976>>, <<26479, 729>>, <<36138, 19594>>,
        <<65530, 14658>>, <<34673, 63105>>, <<28061, 24866>>, <<64997, 14348>>,
        <<42174, 59972>>, <<19422, 53161>>, <<63163, 19296>>, <<48831, 48240>>,
        <<10395, 32454>>, <<60065, 10234>>, <<54511, 12421>>, <<1160, 7429>>,
        <<55764, 53305>>, <<59099, 39397>>, <<8098, 31992>>, <<50348, 22117>>,
        <<62505, 8772>>, <<17194, 65431>>, <<43924, 9127>>, <<64659, 41017>>,
        <<25947, 22979>>, <<36620, 52370>>, <<65519, 62589>>, <<34180, 24017>>,
        <<28584, 32335>>, <<65068, 59104>>, <<41729, 17172>>, <<19976, 4513>>,
        <<63315, 32386>>, <<48442, 62005>>, <<10967, 53947>>, <<60294, 54161>> >>

\* the initial accumulators a0, b0, c0, d0 (0x67452301, 0xefcdab89,
\* 0x98badcfe, 0x10325476)
Md5Init == << <<26437, 8961>>, <<61389, 43913>>, <<39098, 56574>>, <<4146, 21622>> >>

\* msgLenPadded = (msgLen + 9 + 63) & ~63
MsgLenPadded(msgLen) == ((msgLen + 9 + 63) \div 64) * 64

\* the eight bytes written at msgLenPadded - 8 by
\*   setUint32(msgLenPadded - 8, msgBitLen, true)   (msgBitLen = msgLen * 8)
\*   setUint32(msgLenPadded - 4, 0, true)
\* setUint32 keeps msgBitLen modulo 2^32; its four bytes are written here
\* from msgLen directly: bits 0..7 of 8n are (n mod 32) * 8, bits 8..15 are
\* bits 5..12 of n, and so on
Md5LengthField(msgLen) ==
  << (msgLen % 32) * 8, (msgLen \div 32) % 256, (msgLen \div 8192) % 256,
     (msgLen \div 2097152) % 256, 0, 0, 0, 0 >>

\* the padded message msg
Md5Pad(bytes) ==
  LET msgLen == Len(bytes)
      padded == MsgLenPadded(msgLen)
      field == Md5LengthField(msgLen)
  IN  Tabulate([k \in 1..padded |->
                  IF k <= msgLen THEN bytes[k]
                  ELSE IF k = msgLen + 1 THEN 128
                  ELSE IF k > padded - 8 THEN field[k - (padded - 8)]
                  ELSE 0], padded)

\* chunk[g] of the Uint32Array view at byte offset `offset` (little-endian host)
ChunkWord(msg, offset, g) ==
  LET p == offset + 4 * g
  IN  << msg[p + 3] + 256 * msg[p + 4], msg[p + 1] + 256 * msg[p + 2] >>

\* f of round i
Md5F(i, b, c, d) ==
  IF i < 16 THEN Or32(And32(b, c), And32(Not32(b), d))
  ELSE IF i < 32 THEN Or32(And32(d, b), And32(Not32(d), c))
  ELSE IF i < 48 THEN Xor32(Xor32(b, c), d)
  ELSE Xor32(c, Or32(b, Not32(d)))

\* (the index of the second sixteen rounds without its + 1)
Md5GNoOffset(i) ==
  IF i < 16 THEN i
  ELSE IF i < 32 THEN (5 * i) % 16
  ELSE IF i < 48 THEN (3 * i + 5) % 16
  ELSE (7 * i) % 16

\* g of round i
Md5G(i) ==
  IF i < 16 THEN i
  ELSE IF i < 32 THEN (5 * i + 1) % 16
  ELSE IF i < 48 THEN (3 * i + 5) % 16
  ELSE (7 * i) % 16

\* (f << s) | (f >>> (32 - s)) for 0 < s < 32
RotL(f, s) ==
  LET x == IF s >= 16 THEN << f[2], f[1] >> ELSE f
      r == s % 16
  IN  << ((x[1] * Pow2(r)) % Pow2(16)) + (x[2] \div Pow2(16 - r)),
         ((x[2] * Pow2(r)) % Pow2(16)) + (x[1] \div Pow2(16 - r)) >>

\* one round of the inner loop on the working values <<a, b, c, d>>
Md5Round(i, st, msg, offset) ==
  LET a == st[1]
      b == st[2]
      c == st[3]
      d == st[4]
      f == Add32(Add32(Add32(Md5F(i, b, c, d), a), K[i + 1]),
                 ChunkWord(msg, offset, Md5G(i)))
  IN  << d, Add32(b, RotL(f, S[i + 1])), b, c >>

RECURSIVE Md5Rounds(_, _, _, _, _)
\* the rounds i = lo .. hi-1 of the inner loop
Md5Rounds(lo, hi, st, msg, offset) ==
  IF st # st THEN st
  ELSE IF hi - lo = 1 THEN Md5Round(lo, st, msg, offset)
  ELSE Md5Rounds((lo + hi) \div 2, hi,
                 Md5Rounds(lo, (lo + hi) \div 2, st, msg, offset), msg, offset)

\* a0 = (a0 + a) >>> 0, and so for b0, c0, d0
Md5AddState(h, w) ==
  << Add32(h[1], w[1]), Add32(h[2], w[2]), Add32(h[3], w[3]), Add32(h[4], w[4]) >>

RECURSIVE Md5Chunks(_, _, _)
\* the loop over the 64-byte chunks from `offset` on, h = <<a0, b0, c0, d0>>
Md5Chunks(offset, h, msg) ==
  IF h # h THEN h
  ELSE IF offset >= Len(msg) THEN h
  ELSE Md5Chunks(offset + 64,
                 Md5AddState(h, Md5Rounds(0, 64, h, msg, offset)), msg)

\* the four accumulators written to the result, little-endian
Md5Result(h) == LE32(h[1]) \o LE32(h[2]) \o LE32(h[3]) \o LE32(h[4])

md5(bytes) ==
  IF bytes # bytes THEN bytes
  ELSE Md5Result(Md5Chunks(0, Md5Init, Md5Pad(bytes)))

----------------------------------------------------------------------------
(* class RC4 (crypto-minimal.js)                                           *)

\* The table this.s is the sequence of its 256 entries: s[i] of the code is
\* At(s, i).
At(s, i) == s[i + 1]

\* this.s after the first loop of the constructor: s[i] = i
IdentityTable == Tabulate([x \in 1..256 |-> x - 1], 256)

\* (s[a] = s[b]; s[b] = s[a], no value held aside)
SwapOverwrite(s, a, b) == [s EXCEPT ![a + 1] = At(s, b)]

\* [s[a], s[b]] = [s[b], s[a]]
Swap(s, a, b) == [s EXCEPT ![a + 1] = At(s, b), ![b + 1] = At(s, a)]

\* the new j of one key-schedule step: (j + this.s[i] + key[i % key.length]) & 0xFF.
\* For an empty key i % 0 is NaN, key[NaN] is undefined, the sum is NaN and
\* NaN & 0xFF is 0.
KsaNextJ(s, j, key, i) ==
  IF Len(key) = 0 THEN 0
  ELSE (j + At(s, i) + key[(i % Len(key)) + 1]) % 256

\* one step of the key-schedule loop on st = [s, j]: the new j, then the swap
KsaStep(st, key, i) ==
  LET j2 == KsaNextJ(st.s, st.j, key, i)
  IN  [s |-> Swap(st.s, i, j2), j |-> j2]

RECURSIVE KsaSteps(_, _, _, _)
\* the steps i = lo .. hi-1 of the key-schedule loop
KsaSteps(lo, hi, st, key) ==
  IF st # st THEN st
  ELSE IF hi - lo = 1 THEN KsaStep(st, key, lo)
  ELSE KsaSteps((lo + hi) \div 2, hi,
                KsaSteps(lo, (lo + hi) \div 2, st, key), key)

\* this.s at the end of the constructor
Ksa(key) == KsaSteps(0, 256, [s |-> IdentityTable, j |-> 0], key).s

\* new RC4(key)
RC4New(key) ==
  IF key # key THEN [s |-> key, i |-> 0, j |-> 0]
  ELSE [s |-> Ksa(key), i |-> 0, j |-> 0]

\* (the same iteration with the swap left out)
RC4ByteNoSwap(st, data, k) ==
  LET i2 == (st.c.i + 1) % 256
      j2 == (st.c.j + At(st.c.s, i2)) % 256
      s2 == st.c.s
      t == (At(s2, i2) + At(s2, j2)) % 256
  IN  [c |-> [s |-> s2, i |-> i2, j |-> j2],
       result |-> SetByte(st.result, k, Xor8(data[k + 1], At(s2, t)))]

\* one iteration of the loop of process on st = [c, result], c the instance:
\* the cursors move, two entries are swapped, result[k] is written
RC4Byte(st, data, k) ==
  LET i2 == (st.c.i + 1) % 256
      j2 == (st.c.j + At(st.c.s, i2)) % 256
      s2 == Swap(st.c.s, i2, j2)
      t == (At(s2, i2) + At(s2, j2)) % 256
  IN  [c |-> [s |-> s2, i |-> i2, j |-> j2],
       result |-> SetByte(st.result, k, Xor8(data[k + 1], At(s2, t)))]

RECURSIVE RC4Loop(_, _, _, _)
\* the iterations k = lo .. hi-1 of the loop of process
RC4Loop(lo, hi, st, data) ==
  IF st # st THEN st
  ELSE IF hi <= lo THEN st
  ELSE IF hi - lo = 1 THEN RC4Byte(st, data, lo)
  ELSE RC4Loop((lo + hi) \div 2, hi,
               RC4Loop(lo, (lo + hi) \div 2, st, data), data)

\* (process working on a copy of the table and the cursors)
RC4ProcessOnCopy(c, data) ==
  [c |-> c,
   result |-> RC4Loop(0, Len(data), [c |-> c, result |-> Zeros(Len(data))],
                      data).result]

\* c.process(data): the instance afterwards (c) and the buffer returned (result)
RC4Process(c, data) ==
  RC4Loop(0, Len(data), [c |-> c, result |-> Zeros(Len(data))], data)

\* new RC4(key).process(data), the instance dropped afterwards
RC4Once(key, data) == RC4Process(RC4New(key), data).result

----------------------------------------------------------------------------
(* Strings.                                                                *)

\* A string is the sequence of its code points. The UTF-8 bytes of one code
\* point, as TextEncoder writes them:
Utf8(cp) ==
  IF cp < 128 THEN << cp >>
  ELSE IF cp < 2048 THEN << 192 + (cp \div 64), 128 + (cp % 64) >>
  ELSE IF cp < 65536
    THEN << 224 + (cp \div 4096), 128 + ((cp \div 64) % 64), 128 + (cp % 64) >>
  ELSE << 240 + (cp \div 262144), 128 + ((cp \div 4096) % 64),
          128 + ((cp \div 64) % 64), 128 + (cp % 64) >>

RECURSIVE EncodeRange(_, _, _)
\* the bytes of the code points lo+1 .. hi of str
EncodeRange(str, lo, hi) ==
  IF hi <= lo THEN << >>
  ELSE IF hi - lo = 1 THEN Utf8(str[hi])
  ELSE LET mid == (lo + hi) \div 2
       IN  EncodeRange(str, lo, mid) \o EncodeRange(str, mid, hi)

\* new TextEncoder().encode(str)
TextEncode(str) == EncodeRange(str, 0, Len(str))

\* An optional string argument (ownerPassword = null by default)
Null == [isNull |-> TRUE, str |-> << >>]
Str(s) == [isNull |-> FALSE, str |-> s]

\* (a ?? b: the empty string taken as a password given)
OrElseNullish(a, b) == IF ~a.isNull THEN a.str ELSE b

\* a || b for an optional string a and a string b: a when a is neither null
\* nor the empty string
OrElse(a, b) == IF ~a.isNull /\ a.str # << >> THEN a.str ELSE b

----------------------------------------------------------------------------
(* pdf-encrypt.js: the Standard Security Handler                           *)

PADDING == << 40, 191, 78, 94, 78, 117, 138, 65,
              100, 0, 78, 86, 255, 250, 1, 8,
              46, 46, 0, 182, 208, 104, 62, 128,
              47, 12, 169, 254, 100, 83, 105, 122 >>

\* (the padding taken from where the password ends instead of from its start)
padPasswordTail(password) ==
  LET pwdBytes == TextEncode(password)
      padded == Zeros(32)
  IN  IF Len(pwdBytes) >= 32
        THEN SetAt(padded, Slice(pwdBytes, 0, 32), 0)
        ELSE SetAt(SetAt(padded, pwdBytes, 0),
                   Slice(PADDING, Len(pwdBytes), 32), Len(pwdBytes))

padPassword(password) ==
  LET pwdBytes == TextEncode(password)
      padded == Zeros(32)
  IN  IF Len(pwdBytes) >= 32
        THEN SetAt(padded, Slice(pwdBytes, 0, 32), 0)
        ELSE SetAt(SetAt(padded, pwdBytes, 0),
                   Slice(PADDING, 0, 32 - Len(pwdBytes)), Len(pwdBytes))

\* (the bytes taken high byte first)
WordByteBigEndian(w, sh) ==
  IF sh < 16 THEN (w[1] \div Pow2(8 - sh)) % 256
  ELSE (w[2] \div Pow2(24 - sh)) % 256

\* (permissions >> sh) & 0xFF for the 32-bit pattern permissions = <<hi, lo>>,
\* sh in {0, 8, 16, 24}
WordByte(w, sh) ==
  IF sh < 16 THEN (w[2] \div Pow2(sh)) % 256
  ELSE (w[1] \div Pow2(sh - 16)) % 256

RECURSIVE RehashLoop(_, _, _)
\* the iterations i = lo .. hi-1 of the loop hash = md5(hash.slice(0, 16))
RehashLoop(lo, hi, hash) ==
  IF hash # hash THEN hash
  ELSE IF hi - lo = 1 THEN md5(Slice(hash, 0, 16))
  ELSE RehashLoop((lo + hi) \div 2, hi,
                  RehashLoop(lo, (lo + hi) \div 2, hash))

computeEncryptionKey(userPassword, ownerKey, permissions, fileId) ==
  LET paddedPwd == padPassword(userPassword)
      buf0 == Zeros(Len(paddedPwd) + Len(ownerKey) + 4 + Len(fileId))
      buf1 == SetAt(buf0, paddedPwd, 0)
      off1 == Len(paddedPwd)
      buf2 == SetAt(buf1, ownerKey, off1)
      off2 == off1 + Len(ownerKey)
      buf3 == SetByte(buf2, off2, WordByte(permissions, 0))
      buf4 == SetByte(buf3, off2 + 1, WordByte(permissions, 8))
      buf5 == SetByte(buf4, off2 + 2, WordByte(permissions, 16))
      buf6 == SetByte(buf5, off2 + 3, WordByte(permissions, 24))
      hashInput == SetAt(buf6, fileId, off2 + 4)
  IN  Slice(RehashLoop(0, 50, md5(hashInput)), 0, 16)

\* (a key of 16 bytes whatever the length of base)
XorKey16(base, i) ==
  Tabulate([j \in 1..16 |-> Xor8(IF j <= Len(base) THEN base[j] ELSE 0, i)], 16)

\* key[j] = base[j] ^ i for every j
XorKey(base, i) == Tabulate([j \in 1..Len(base) |-> Xor8(base[j], i)], Len(base))

\* one iteration of the loop of computeOwnerKey: the key of iteration i, a new
\* cipher, result = rc4.process(result)
OwnerRc4Step(i, hash, result) == RC4Once(Slice(XorKey(hash, i), 0, 16), result)

RECURSIVE OwnerRc4Loop(_, _, _, _)
\* the iterations i = lo .. hi-1 of the encryption loop of computeOwnerKey
OwnerRc4Loop(lo, hi, hash, result) ==
  IF <<hash, result>> # <<hash, result>> THEN result
  ELSE IF hi - lo = 1 THEN OwnerRc4Step(lo, hash, result)
  ELSE OwnerRc4Loop((lo + hi) \div 2, hi, hash,
                    OwnerRc4Loop(lo, (lo + hi) \div 2, hash, result))

RECURSIVE OwnerHashLoop(_, _, _)
\* the iterations i = lo .. hi-1 of the loop hash = md5(hash)
OwnerHashLoop(lo, hi, hash) ==
  IF hash # hash THEN hash
  ELSE IF hi - lo = 1 THEN md5(hash)
  ELSE OwnerHashLoop((lo + hi) \div 2, hi,
                     OwnerHashLoop(lo, (lo + hi) \div 2, hash))

computeOwnerKey(ownerPassword, userPassword) ==
  LET paddedOwner == padPassword(OrElse(ownerPassword, userPassword))
      hash == OwnerHashLoop(0, 50, md5(paddedOwner))
      paddedUser == padPassword(userPassword)
  IN  OwnerRc4Loop(0, 20, hash, paddedUser)

RECURSIVE UserRc4Loop(_, _, _, _)
\* the iterations i = lo .. hi-1 of the loop of computeUserKey
UserRc4Loop(lo, hi, encryptionKey, result) ==
  IF <<encryptionKey, result>> # <<encryptionKey, result>> THEN result
  ELSE IF hi - lo = 1 THEN RC4Once(XorKey(encryptionKey, lo), result)
  ELSE UserRc4Loop((lo + hi) \div 2, hi, encryptionKey,
                   UserRc4Loop(lo, (lo + hi) \div 2, encryptionKey, result))

computeUserKey(encryptionKey, fileId) ==
  LET hashInput == SetAt(SetAt(Zeros(Len(PADDING) + Len(fileId)), PADDING, 0),
                         fileId, Len(PADDING))
      hash == md5(hashInput)
      result == UserRc4Loop(1, 20, encryptionKey, RC4Once(encryptionKey, hash))
  IN  SetAt(SetAt(Zeros(32), result, 0), Zeros(16), 16)

\* (the generation number left out of keyInput)
ObjectKeyInputNoGen(objectNum, generationNum, encryptionKey) ==
  LET n == Len(encryptionKey)
      k0 == SetAt(Zeros(n + 5), encryptionKey, 0)
      k1 == SetByte(k0, n, ShrByte(objectNum, 0))
      k2 == SetByte(k1, n + 1, ShrByte(objectNum, 8))
  IN  SetByte(k2, n + 2, ShrByte(objectNum, 16))

\* keyInput of encryptObject
ObjectKeyInput(objectNum, generationNum, encryptionKey) ==
  LET n == Len(encryptionKey)
      k0 == SetAt(Zeros(n + 5), encryptionKey, 0)
      k1 == SetByte(k0, n, ShrByte(objectNum, 0))
      k2 == SetByte(k1, n + 1, ShrByte(objectNum, 8))
      k3 == SetByte(k2, n + 2, ShrByte(objectNum, 16))
      k4 == SetByte(k3, n + 3, ShrByte(generationNum, 0))
  IN  SetByte(k4, n + 4, ShrByte(generationNum, 8))

\* (the first 16 bytes whatever the length of the file key)
ObjectKey16(objectNum, generationNum, encryptionKey) ==
  Slice(md5(ObjectKeyInput(objectNum, generationNum, encryptionKey)), 0, 16)

\* the key handed to new RC4 in encryptObject
ObjectKey(objectNum, generationNum, encryptionKey) ==
  Slice(md5(ObjectKeyInput(objectNum, generationNum, encryptionKey)),
        0, Min(Len(encryptionKey) + 5, 16))

encryptObject(data, objectNum, generationNum, encryptionKey) ==
  RC4Once(ObjectKey(objectNum, generationNum, encryptionKey), data)

----------------------------------------------------------------------------
(* crypto-minimal.js: hexToBytes, bytesToHex                               *)

\* Text is the sequence of its character codes. The value of one character
\* as a hexadecimal digit, -1 when it is none
HexValue(ch) ==
  IF ch >= 48 /\ ch <= 57 THEN ch - 48
  ELSE IF ch >= 97 /\ ch <= 102 THEN ch - 87
  ELSE IF ch >= 65 /\ ch <= 70 THEN ch - 55
  ELSE -1

\* the byte stored for parseInt(text, 16), text of at most two characters
\* without a sign: the digits up to the first character that is none, after
\* leading white space (9..13, 32); NaN, stored as 0, when there is no digit
ParseHexByte(text) ==
  IF Len(text) = 0 THEN 0
  ELSE IF HexValue(text[1]) >= 0
    THEN IF Len(text) > 1 /\ HexValue(text[2]) >= 0
           THEN 16 * HexValue(text[1]) + HexValue(text[2])
           ELSE HexValue(text[1])
  ELSE IF text[1] \in {9, 10, 11, 12, 13, 32} /\ Len(text) > 1 /\ HexValue(text[2]) >= 0
    THEN HexValue(text[2])
  ELSE 0

\* new Uint8Array(hex.length / 2) has floor(hex.length / 2) elements
hexToBytes(hex) ==
  Tabulate([i \in 1..(Len(hex) \div 2) |->
              ParseHexByte(SubSeq(hex, 2 * i - 1, 2 * i))],
           Len(hex) \div 2)

\* the character of the hexadecimal digit d, lower case
HexDigit(d) == IF d < 10 THEN 48 + d ELSE 87 + d

\* b.toString(16).padStart(2, '0') for every byte, joined
bytesToHex(bytes) ==
  Tabulate([k \in 1..(2 * Len(bytes)) |->
              IF k % 2 = 1 THEN HexDigit(bytes[(k + 1) \div 2] \div 16)
              ELSE HexDigit(bytes[k \div 2] % 16)], 2 * Len(bytes))

----------------------------------------------------------------------------
(* The objects of the document model (pdf-lib) as pdf-encrypt.js uses them *)

\* An object is [kind, name, value, items]: kind is the class, name the text
\* of a PDFName, value the characters of a string, the bytes of the contents
\* of a stream or the digits of a number, items the entries [key, val] of a
\* dictionary or of the dictionary of a stream, or the elements of an array
\* (key "").
Entry(key, val) == [key |-> key, val |-> val]
PDFString(chars) ==
  [kind |-> "PDFString", name |-> "", value |-> chars, items |-> << >>]
PDFHexString(hex) ==
  [kind |-> "PDFHexString", name |-> "", value |-> hex, items |-> << >>]
PDFName(name) ==
  [kind |-> "PDFName", name |-> name, value |-> << >>, items |-> << >>]
PDFNumber(n) ==
  [kind |-> "PDFNumber", name |-> "", value |-> << n >>, items |-> << >>]
PDFDict(entries) ==
  [kind |-> "PDFDict", name |-> "", value |-> << >>, items |-> entries]
PDFArray(elements) ==
  [kind |-> "PDFArray", name |-> "", value |-> << >>,
   items |-> [k \in 1..Len(elements) |-> Entry("", elements[k])]]
PDFRawStream(entries, contents) ==
  [kind |-> "PDFRawStream", name |-> "", value |-> contents, items |-> entries]

\* PDFString.asBytes(): the characters of the literal, a backslash taken
\* with the character after it (strings without octal escapes)
RECURSIVE AsBytesFrom(_, _)
AsBytesFrom(chars, k) ==
  IF k > Len(chars) THEN << >>
  ELSE IF chars[k] # 92 THEN << chars[k] >> \o AsBytesFrom(chars, k + 1)
  ELSE IF k = Len(chars) THEN << >>
  ELSE LET e == chars[k + 1]
           byte == IF e = 110 THEN << 10 >>
                   ELSE IF e = 114 THEN << 13 >>
                   ELSE IF e = 116 THEN << 9 >>
                   ELSE IF e = 98 THEN << 8 >>
                   ELSE IF e = 102 THEN << 12 >>
                   ELSE IF e \in {10, 13} THEN << >>
                   ELSE << e >>
       IN  byte \o AsBytesFrom(chars, k + 2)

asBytes(chars) == AsBytesFrom(chars, 1)

\* (DecodeParms gone into)
ReservedKeysTwo == {"/Length", "/Filter"}

\* the entries of a dictionary that encryptStringsInObject does not go into
ReservedKeys == {"/Length", "/Filter", "/DecodeParms"}

RECURSIVE encryptStringsInObject(_, _, _, _)
\* the object as the call leaves it; obj.value = bytesToHex(encryptObject(
\* originalBytes, ...)) for a PDFString (lines 375-378) and for a
\* PDFHexString (lines 380-382)
encryptStringsInObject(obj, objectNum, generationNum, key) ==
  IF obj.kind \in {"PDFString", "PDFHexString"}
    THEN [obj EXCEPT !.value =
            bytesToHex(encryptObject(
              IF obj.kind = "PDFString" THEN asBytes(obj.value)
              ELSE hexToBytes(obj.value),
              objectNum, generationNum, key))]
  ELSE IF obj.kind = "PDFDict"
    THEN [obj EXCEPT !.items =
            [k \in 1..Len(obj.items) |->
               IF obj.items[k].key \notin ReservedKeys
                 THEN Entry(obj.items[k].key,
                            encryptStringsInObject(obj.items[k].val, objectNum,
                                                   generationNum, key))
                 ELSE obj.items[k]]]
  ELSE IF obj.kind = "PDFArray"
    THEN [obj EXCEPT !.items =
            [k \in 1..Len(obj.items) |->
               Entry("", encryptStringsInObject(obj.items[k].val, objectNum,
                                                generationNum, key))]]
  ELSE obj

----------------------------------------------------------------------------
(* The inputs the operations are applied to.                               *)

\* n bytes of value b
RepByte(b, n) == Tabulate([k \in 1..n |-> b], n)

\* the first n elements of a sequence
Prefix(seq, n) == SubSeq(seq, 1, Min(n, Len(seq)))

\* the longest buffer handed to md5 directly
MaxMsgLen == 120

\* the strings "abc", "message digest" and "abcdefghijklmnopqrstuvwxyz"
Abc == <<97, 98, 99>>
MessageDigest == <<109, 101, 115, 115, 97, 103, 101, 32, 100, 105, 103, 101,
                 115, 116>>
Alphabet == <<97, 98, 99, 100, 101, 102, 103, 104, 105, 106, 107, 108, 109,
            110, 111, 112, 113, 114, 115, 116, 117, 118, 119, 120, 121,
            122>>

\* the 56 bytes "abcdbcdecdefdefgefghfghighijhijkijkljklmklmnlmnomnopnopq"
Nist56 ==
  <<97, 98, 99, 100, 98, 99, 100, 101, 99, 100, 101, 102, 100, 101, 102,
  103, 101, 102, 103, 104, 102, 103, 104, 105, 103, 104, 105, 106, 104, 105,
  106, 107, 105, 106, 107, 108, 106, 107, 108, 109, 107, 108, 109, 110, 108,
  109, 110, 111, 109, 110, 111, 112, 110, 111, 112, 113>>

\* An argument of md5 is a string or a buffer.
StringArg(s) == [isString |-> TRUE, value |-> s]
BufferArg(b) == [isString |-> FALSE, value |-> b]

Md5Args ==
  {BufferArg(RepByte(97, n)) : n \in 0..MaxMsgLen}
    \cup {BufferArg(Nist56)}
    \cup {StringArg(s) : s \in {<< >>, Abc, MessageDigest, Alphabet, <<233, 8364>>}}

\* lengths of buffers of 512 MiB and more (2^29 - 1, 2^29, 2^29 + 57, 2^30)
LongLengths == {Pow2(29) - 1, Pow2(29), Pow2(29) + 57, Pow2(30)}

\* the longest password handed to padPassword directly
MaxPwdLen == 34

\* passwords: n times the code point "a", e-acute (2 bytes), the euro sign
\* (3 bytes) or U+1F600 (4 bytes), and one mixed string
Passwords ==
  {RepByte(cp, n) : cp \in {97, 233, 8364, 128512}, n \in 0..MaxPwdLen}
    \cup {<<97, 233, 8364, 128512>>}

\* "secret123" and "owner456"
Secret123 == <<115, 101, 99, 114, 101, 116, 49, 50, 51>>
Owner456 == <<111, 119, 110, 101, 114, 52, 53, 54>>

UserPasswords == {<< >>, Secret123}
OwnerPasswords == {Null, Str(<< >>), Str(Owner456)}

\* permissions as <<hi, lo>>: 0xFFFFFFFC (line 457) and 0x01020304
AllowAll == <<65535, 65532>>
PermissionsSet == {AllowAll, <<258, 772>>}

\* file identifiers: 16 zero bytes, and DE AD BE EF
FileIds == {Zeros(16), <<222, 173, 190, 239>>}

\* the lengths of the file key handed to computeUserKey and encryptObject
KeyLengths == {5, 16}

\* (object number, generation number) of the objects encrypted
ObjectRefs ==
  { <<1, 0>>, <<2, 0>>, <<1, 1>>, <<7, 0>>, <<66051, 1029>>,
    <<16777217, 0>>, <<1, 65536>> }

\* "hello"
Hello == <<104, 101, 108, 108, 111>>
Payloads == {<< >>, Hello}

\* the longest buffer handed to process, and the calls made on one instance
MaxDataLen == 3
MaxCalls == 2

\* the calls of encryptObject that may be in progress at once, and the
\* number of calls begun in one run
Frames == {1, 2}
MaxObjectCalls == 3

\* the file key of "secret123", no owner password, permissions 0xFFFFFFFC and
\* a file identifier of 16 zero bytes; the file keys handed to encryptObject
GoldenKey == <<26, 237, 50, 184, 19, 55, 239, 138, 104, 42, 162, 52, 194, 219,
               172, 245>>
FileKeys == {GoldenKey, Prefix(GoldenKey, 5)}
CallRefs == { <<7, 0>>, <<8, 0>> }

\* "Key" and "Plaintext"
KeyKey == <<75, 101, 121>>
Plaintext == <<80, 108, 97, 105, 110, 116, 101, 120, 116>>

RC4Keys == {<< >>, <<1>>, KeyKey, Prefix(PADDING, 16)}
DataSet == {Prefix(Plaintext, n) : n \in 0..MaxDataLen}

\* A generation number the document model gives, or none
Undefined == [undefined |-> TRUE, n |-> 0]
Num(n) == [undefined |-> FALSE, n |-> n]

\* g || 0
OrZero(g) == IF g.undefined \/ g.n = 0 THEN 0 ELSE g.n

PDFRef(objectNumber, generationNumber) ==
  [objectNumber |-> objectNumber, generationNumber |-> generationNumber]
Indirect(objectNumber, generationNumber, obj) ==
  [ref |-> PDFRef(objectNumber, generationNumber), obj |-> obj]
NoRef == PDFRef(0, Undefined)

\* trailerInfo.ID: absent, an array of the language, or a PDFArray of the
\* document model (which Array.isArray does not take for an array)
NoID == [kind |-> "undefined", items |-> << >>]
JSArray(elements) == [kind |-> "Array", items |-> elements]
ParsedArray(elements) == [kind |-> "PDFArray", items |-> elements]

\* The strings below are "Hi" (72 105), "L" (76), "k" (107), "f" (102),
\* "s" (115) and a\nb as a literal holds it (97 92 110 98); the hexadecimal
\* strings are 41 (52 49), 0aFf (48 97 70 102) and deadbeef.

\* a catalog with strings at several depths, some under reserved keys, and
\* a stream whose dictionary holds a string; no file identifier
DocPlain ==
  [objects |-> <<
     Indirect(1, Num(0), PDFDict(<<
       Entry("/Type", PDFName("/Catalog")),
       Entry("/Title", PDFString(<<72, 105>>)),
       Entry("/Length", PDFString(<<76>>)),
       Entry("/Kids", PDFArray(<<
         PDFHexString(<<52, 49>>),
         PDFNumber(7),
         PDFDict(<<
           Entry("/DecodeParms", PDFDict(<< Entry("/K", PDFString(<<107>>)) >>)),
           Entry("/V", PDFString(<<97, 92, 110, 98>>)) >>) >>)) >>)),
     Indirect(2, Undefined, PDFRawStream(<<
       Entry("/Length", PDFNumber(2)),
       Entry("/Filter", PDFName("/FlateDecode")),
       Entry("/F", PDFString(<<102>>)) >>, <<80, 68>>)) >>,
   trailer |-> [ID |-> NoID, Encrypt |-> NoRef]]

\* a string and an encryption dictionary as indirect objects; the file
\* identifier an array of two hexadecimal strings
DocWithId ==
  [objects |-> <<
     Indirect(3, Num(1), PDFString(<<115>>)),
     Indirect(4, Num(0), PDFDict(<<
       Entry("/Filter", PDFName("/Standard")),
       Entry("/O", PDFHexString(<<48, 97, 70, 102>>)) >>)) >>,
   trailer |-> [ID |-> JSArray(<< PDFHexString(<<100, 101, 97, 100, 98, 101, 101, 102>>),
                                  PDFHexString(<<100, 101, 97, 100, 98, 101, 101, 102>>) >>),
                Encrypt |-> NoRef]]

\* an array as indirect object; the file identifier as the parser of the
\* document model holds it
DocParsedId ==
  [objects |-> <<
     Indirect(5, Num(0), PDFArray(<< PDFHexString(<<48, 97, 70, 102>>) >>)) >>,
   trailer |-> [ID |-> ParsedArray(<< PDFHexString(<<100, 101, 97, 100, 98, 101, 101, 102>>),
                                      PDFHexString(<<100, 101, 97, 100, 98, 101, 101, 102>>) >>),
                Encrypt |-> NoRef]]

\* a dictionary whose Filter is an array of names, after one with a string
DocFilterArray ==
  [objects |-> <<
     Indirect(1, Num(0), PDFDict(<< Entry("/S", PDFString(<<115>>)) >>)),
     Indirect(2, Num(0), PDFDict(<<
       Entry("/Filter", PDFArray(<< PDFName("/FlateDecode") >>)),
       Entry("/T", PDFString(<<72, 105>>)) >>)) >>,
   trailer |-> [ID |-> NoID, Encrypt |-> NoRef]]

NoDoc == [objects |-> << >>, trailer |-> [ID |-> NoID, Encrypt |-> NoRef]]

Documents == {DocPlain, DocWithId, DocParsedId, DocFilterArray}

\* the bytes handed to encryptPDF: those of a document, or bytes that
\* PDFDocument.load does not accept
NotAPdf == [parses |-> FALSE, doc |-> NoDoc]
PdfFiles == {[parses |-> TRUE, doc |-> d] : d \in Documents} \cup {NotAPdf}

\* the passwords handed to encryptPDF, as <<userPassword, ownerPassword>>
PdfPasswords == { <<Secret123, Null>>, << << >>, Str(Owner456) >> }

\* the 16 bytes a random source may give: 1..16, and 16 times 0xA5
RandomIds == {[k \in 1..16 |-> k], RepByte(165, 16)}

\* the errors the document model and the engine raise, by their message
Error(message) == [message |-> message]
LoadError == Error("No PDF header found")
SaveError == Error("Expected instance of PDFDict")
AsStringError == Error("filter.asString is not a function")
NoError == Error("")

----------------------------------------------------------------------------
(* The state.                                                              *)

VARIABLES
  phase,          \* RC4: "none", "first" (one instance made), "second"
  cipher,         \* RC4: the live instance [s, i, j]
  cipherKey,      \* RC4: the key it was constructed from
  calls,          \* RC4: the process calls made on it, [in, out] each
  prev,           \* RC4: the first call made on the instance before it
  pc,             \* the function applied last ("idle" before any)
  arg,            \* md5 / padPassword: the argument
  result,         \* md5 / padPassword: the value returned
  pre,            \* md5: what the pre-processing has built (lines 59-69)
  userPassword,   \* key derivation: the inputs ...
  ownerPassword,
  permissions,
  fileId,
  ownerKey,       \* ... and the values computed from them
  encryptionKey,
  fileKey,
  userKey,
  enc,            \* encryptObject: the arguments, the RC4 key, the result
  frames,         \* encryptObject: the calls in progress, their locals
  ncalls,         \* encryptObject: the calls begun
  step,           \* encryptPDF: the statement the call is at
  args,           \* encryptPDF: pdfBytes, the passwords, the environment
  pdfDoc,         \* encryptPDF: the document as it is now
  loaded,         \* encryptPDF: the document as load returned it
  locals,         \* encryptPDF: fileId, the keys, the loop's position
  log,            \* encryptPDF: the calls of encryptObject made so far
  caught,         \* encryptPDF: the error the catch clause was handed
  outcome         \* encryptPDF: how the promise returned was settled

rc4Vars == << phase, cipher, cipherKey, calls, prev >>
fnVars == << pc, arg, result, pre >>
kdfVars == << userPassword, ownerPassword, permissions, fileId, ownerKey,
              encryptionKey, fileKey, userKey, enc >>
callVars == << frames, ncalls >>
pdfVars == << step, args, pdfDoc, loaded, locals, log, caught, outcome >>
vars == << rc4Vars, fnVars, kdfVars, callVars, pdfVars >>

NoPrev == [set |-> FALSE, key |-> << >>, in |-> << >>, out |-> << >>]
NoPre == [msgLen |-> 0, msgLenPadded |-> 0, lengthField |-> << >>,
          msg |-> << >>]
NoEnc == [data |-> << >>, objectNum |-> 0, generationNum |-> 0,
          objectKey |-> << >>, result |-> << >>]

\* the locals of a call of encryptObject that has not begun
FreeFrame == [pc |-> "free", data |-> << >>, objectNum |-> 0,
              generationNum |-> 0, encryptionKey |-> << >>,
              rc4 |-> [s |-> << >>, i |-> 0, j |-> 0], result |-> << >>]

Init ==
  /\ phase = "none"
  /\ cipher = [s |-> << >>, i |-> 0, j |-> 0]
  /\ cipherKey = << >>
  /\ calls = << >>
  /\ prev = NoPrev
  /\ pc = "idle"
  /\ arg = << >>
  /\ result = << >>
  /\ pre = NoPre
  /\ userPassword = << >>
  /\ ownerPassword = Null
  /\ permissions = <<0, 0>>
  /\ fileId = << >>
  /\ ownerKey = << >>
  /\ encryptionKey = << >>
  /\ fileKey = << >>
  /\ userKey = << >>
  /\ enc = NoEnc
  /\ frames = [f \in Frames |-> FreeFrame]
  /\ ncalls = 0
  /\ step = "idle"
  /\ args = [pdfBytes |-> NotAPdf, userPassword |-> << >>,
             ownerPassword |-> Null, secure |-> FALSE]
  /\ pdfDoc = NoDoc
  /\ loaded = NoDoc
  /\ locals = [fileId |-> << >>, idSource |-> "", drawn |-> << >>,
               ownerKey |-> << >>, encryptionKey |-> << >>, userKey |-> << >>,
               indirectObjects |-> 0, index |-> 0]
  /\ log = << >>
  /\ caught = NoError
  /\ outcome = [state |-> "pending", doc |-> NoDoc, error |-> NoError]

----------------------------------------------------------------------------
(* The RC4 instance: constructed, then asked to process buffers. A second  *)
(* instance may replace the first; the first call made on the first is     *)
(* remembered, and its output may be handed to the second.                 *)

\* rc4 = new RC4(key)
RC4Construct(key) ==
  /\ phase \in {"none", "first"}
  /\ phase' = IF phase = "none" THEN "first" ELSE "second"
  /\ cipher' = RC4New(key)
  /\ cipherKey' = key
  /\ calls' = << >>
  /\ prev' = IF calls # << >>
               THEN [set |-> TRUE, key |-> cipherKey,
                     in |-> calls[1].in, out |-> calls[1].out]
               ELSE NoPrev
  /\ UNCHANGED << fnVars, kdfVars, callVars, pdfVars >>

\* out = rc4.process(data)
RC4ProcessCall(data) ==
  /\ phase # "none"
  /\ Len(calls) < MaxCalls
  /\ LET r == RC4Process(cipher, data)
     IN  /\ cipher' = r.c
         /\ calls' = Append(calls, [in |-> data, out |-> r.result])
  /\ UNCHANGED << phase, cipherKey, prev, fnVars, kdfVars, callVars, pdfVars >>

NextRC4 ==
  \/ \E key \in RC4Keys : RC4Construct(key)
  \/ \E data \in DataSet \cup (IF prev.set THEN {prev.out} ELSE {}) :
       RC4ProcessCall(data)

----------------------------------------------------------------------------
(* The functions applied to inputs: md5 and padPassword on their own, and  *)
(* the key derivation in the order of encryptPDF (lines 460-466), followed *)
(* by encryptObject.                                                       *)

\* md5(data), data a string or a buffer (line 23)
md5Data(data) ==
  md5(IF data.isString THEN TextEncode(data.value) ELSE data.value)

\* bytes of md5 (line 23)
md5Bytes(data) == IF data.isString THEN TextEncode(data.value) ELSE data.value

\* msgLen, msgLenPadded, the eight bytes written by the two setUint32, and
\* msg itself, for the argument data
Preprocessed(data) ==
  [msgLen |-> Len(md5Bytes(data)),
   msgLenPadded |-> MsgLenPadded(Len(md5Bytes(data))),
   lengthField |-> Md5LengthField(Len(md5Bytes(data))),
   msg |-> Md5Pad(md5Bytes(data))]

CallMd5(data) ==
  /\ pc = "idle"
  /\ pc' = "md5"
  /\ arg' = data
  /\ pre' = Preprocessed(data)
  /\ result' = md5Data(data)
  /\ UNCHANGED << rc4Vars, callVars, pdfVars, kdfVars >>

\* md5 of a buffer of msgLen bytes too long to be written out: of the
\* pre-processing (lines 59-69), what depends on the length alone, that is
\* msgLenPadded and the eight bytes of the two setUint32; the bytes of msg
\* before them and the digest are left out
CallMd5OfLength(msgLen) ==
  /\ pc = "idle"
  /\ pc' = "md5Long"
  /\ arg' = << >>
  /\ pre' = [msgLen |-> msgLen,
             msgLenPadded |-> MsgLenPadded(msgLen),
             lengthField |-> Md5LengthField(msgLen),
             msg |-> << >>]
  /\ UNCHANGED << rc4Vars, callVars, pdfVars, kdfVars, result >>

CallPadPassword(password) ==
  /\ pc = "idle"
  /\ pc' = "padPassword"
  /\ arg' = password
  /\ result' = padPassword(password)
  /\ UNCHANGED << rc4Vars, callVars, pdfVars, kdfVars, pre >>

\* the arguments of the key derivation are chosen
Start(up, op, perms, id) ==
  /\ pc = "idle"
  /\ pc' = "start"
  /\ userPassword' = up
  /\ ownerPassword' = op
  /\ permissions' = perms
  /\ fileId' = id
  /\ UNCHANGED << rc4Vars, callVars, pdfVars, arg, result, pre, ownerKey, encryptionKey, fileKey,
                  userKey, enc >>

\* ownerKey = computeOwnerKey(ownerPassword, userPassword)
CallComputeOwnerKey ==
  /\ pc = "start"
  /\ pc' = "computeOwnerKey"
  /\ ownerKey' = computeOwnerKey(ownerPassword, userPassword)
  /\ UNCHANGED << rc4Vars, callVars, pdfVars, arg, result, pre, userPassword, ownerPassword,
                  permissions, fileId, encryptionKey, fileKey, userKey, enc >>

\* encryptionKey = computeEncryptionKey(userPassword, ownerKey, permissions, fileId)
CallComputeEncryptionKey ==
  /\ pc = "computeOwnerKey"
  /\ pc' = "computeEncryptionKey"
  /\ encryptionKey' =
       computeEncryptionKey(userPassword, ownerKey, permissions, fileId)
  /\ UNCHANGED << rc4Vars, callVars, pdfVars, arg, result, pre, userPassword, ownerPassword,
                  permissions, fileId, ownerKey, fileKey, userKey, enc >>

\* userKey = computeUserKey(fileKey, fileId), the file key being the first n
\* bytes of encryptionKey (all of it in encryptPDF)
CallComputeUserKey(n) ==
  /\ pc = "computeEncryptionKey"
  /\ pc' = "computeUserKey"
  /\ fileKey' = Slice(encryptionKey, 0, n)
  /\ userKey' = computeUserKey(Slice(encryptionKey, 0, n), fileId)
  /\ UNCHANGED << rc4Vars, callVars, pdfVars, arg, result, pre, userPassword, ownerPassword,
                  permissions, fileId, ownerKey, encryptionKey, enc >>

\* encrypted = encryptObject(data, objectNum, generationNum, fileKey)
CallEncryptObject(data, objectNum, generationNum) ==
  /\ pc = "computeUserKey"
  /\ pc' = "encryptObject"
  /\ enc' = [data |-> data, objectNum |-> objectNum,
             generationNum |-> generationNum,
             objectKey |-> ObjectKey(objectNum, generationNum, fileKey),
             result |-> encryptObject(data, objectNum, generationNum, fileKey)]
  /\ UNCHANGED << rc4Vars, callVars, pdfVars, arg, result, pre, userPassword, ownerPassword,
                  permissions, fileId, ownerKey, encryptionKey, fileKey,
                  userKey >>

NextFn ==
  \/ \E data \in Md5Args : CallMd5(data)
  \/ \E msgLen \in LongLengths : CallMd5OfLength(msgLen)
  \/ \E password \in Passwords : CallPadPassword(password)
  \/ \E up \in UserPasswords, op \in OwnerPasswords,
        perms \in PermissionsSet, id \in FileIds : Start(up, op, perms, id)
  \/ CallComputeOwnerKey
  \/ CallComputeEncryptionKey
  \/ \E n \in KeyLengths : CallComputeUserKey(n)
  \/ \E data \in Payloads, ref \in ObjectRefs :
       CallEncryptObject(data, ref[1], ref[2])

----------------------------------------------------------------------------
(* Calls of encryptObject, each with its own locals; a call is two steps,  *)
(* the construction of its cipher and the processing of its data, and the  *)
(* steps of different calls may come in any order.                         *)

\* (one cipher kept for all calls: the one of a call still known, if any)
CallCipherShared(f, objectNum, generationNum, key) ==
  IF \E g \in Frames : frames[g].pc # "free"
    THEN frames[CHOOSE g \in Frames : frames[g].pc # "free"].rc4
    ELSE RC4New(ObjectKey(objectNum, generationNum, key))

\* const rc4 = new RC4(objectKey.slice(...)) in call f (lines 346-362)
CallCipher(f, objectNum, generationNum, key) ==
  RC4New(ObjectKey(objectNum, generationNum, key))

\* call f of encryptObject up to the construction of its cipher
EncryptObjectBegin(f, data, objectNum, generationNum, key) ==
  /\ frames[f].pc \in {"free", "done"}
  /\ ncalls < MaxObjectCalls
  /\ ncalls' = ncalls + 1
  /\ frames' = [frames EXCEPT ![f] =
       [pc |-> "keyed", data |-> data, objectNum |-> objectNum,
        generationNum |-> generationNum, encryptionKey |-> key,
        rc4 |-> CallCipher(f, objectNum, generationNum, key),
        result |-> << >>]]
  /\ UNCHANGED << rc4Vars, fnVars, kdfVars, pdfVars >>

\* return rc4.process(data) in call f (line 364)
EncryptObjectReturn(f) ==
  /\ frames[f].pc = "keyed"
  /\ LET r == RC4Process(frames[f].rc4, frames[f].data)
     IN  frames' = [frames EXCEPT ![f].pc = "done", ![f].rc4 = r.c,
                                  ![f].result = r.result]
  /\ UNCHANGED << rc4Vars, fnVars, kdfVars, pdfVars, ncalls >>

NextCalls ==
  \/ \E f \in Frames, data \in Payloads, ref \in CallRefs, key \in FileKeys :
       EncryptObjectBegin(f, data, ref[1], ref[2], key)
  \/ \E f \in Frames : EncryptObjectReturn(f)

----------------------------------------------------------------------------
(* encryptPDF (lines 415-522), statement by statement. The call runs to    *)
(* the await of load, from there to the await of save, and from there to   *)
(* its return; a failure anywhere inside the try goes to the catch clause. *)

\* obj.toString() of a string of the document model
toString(obj) ==
  IF obj.kind = "PDFHexString" THEN << 60 >> \o obj.value \o << 62 >>
  ELSE IF obj.kind = "PDFString" THEN << 40 >> \o obj.value \o << 41 >>
  ELSE obj.value

\* idString.replace(/^<|>$/g, '')
StripAngles(text) ==
  LET a == IF Len(text) > 0 /\ text[1] = 60 THEN Tail(text) ELSE text
  IN  IF Len(a) > 0 /\ a[Len(a)] = 62 THEN SubSeq(a, 1, Len(a) - 1) ELSE a

\* idArray && Array.isArray(idArray) && idArray.length > 0
HasFileId(idArray) == idArray.kind = "Array" /\ Len(idArray.items) > 0

\* fileId = hexToBytes(hexStr)
ExistingFileId(idArray) == hexToBytes(StripAngles(toString(idArray.items[1])))

\* (no else branch: without crypto the 16 bytes stay as new Uint8Array(16)
\* made them)
RandomBytesSecureOnly(secure, drawn) == IF secure THEN drawn ELSE Zeros(16)

\* randomBytes after lines 438-445, drawn being what the source gives:
\* crypto.getRandomValues fills the 16 bytes, and so does the loop over
\* Math.random
RandomBytes(secure, drawn) ==
  IF secure THEN drawn ELSE [i \in 1..16 |-> drawn[i]]

\* trailer.ID = [idHex1, idHex2]
GeneratedID(id) ==
  JSArray(<< PDFHexString(bytesToHex(id)), PDFHexString(bytesToHex(id)) >>)

\* obj.get(PDFName.of(key)): whether there is such an entry, and its value
HasKey(obj, key) == \E k \in 1..Len(obj.items) : obj.items[k].key = key
Get(obj, key) ==
  obj.items[CHOOSE k \in 1..Len(obj.items) : obj.items[k].key = key].val

\* the classes of the document model that have asString
HasAsString(obj) == obj.kind \in {"PDFName", "PDFString", "PDFHexString"}

\* filter.asString() === '/Standard'
IsStandard(filter) ==
  \/ filter.kind = "PDFName" /\ filter.name = "/Standard"
  \/ /\ filter.kind \in {"PDFString", "PDFHexString"}
     /\ filter.value = <<47, 83, 116, 97, 110, 100, 97, 114, 100>>

\* lines 475-481: the call of asString fails, or the object is skipped
FilterThrows(obj) ==
  /\ obj.kind = "PDFDict"
  /\ HasKey(obj, "/Filter")
  /\ ~HasAsString(Get(obj, "/Filter"))
IsEncryptionDictionary(obj) ==
  /\ obj.kind = "PDFDict"
  /\ HasKey(obj, "/Filter")
  /\ HasAsString(Get(obj, "/Filter"))
  /\ IsStandard(Get(obj, "/Filter"))

\* the buffers encryptStringsInObject hands to encryptObject, in its order
RECURSIVE StringPayloads(_)
RECURSIVE ItemPayloads(_, _, _)
ItemPayloads(items, k, skipReserved) ==
  IF k > Len(items) THEN << >>
  ELSE (IF skipReserved /\ items[k].key \in ReservedKeys THEN << >>
        ELSE StringPayloads(items[k].val))
         \o ItemPayloads(items, k + 1, skipReserved)

StringPayloads(obj) ==
  IF obj.kind = "PDFString" THEN << asBytes(obj.value) >>
  ELSE IF obj.kind = "PDFHexString" THEN << hexToBytes(obj.value) >>
  ELSE IF obj.kind = "PDFDict" THEN ItemPayloads(obj.items, 1, TRUE)
  ELSE IF obj.kind = "PDFArray" THEN ItemPayloads(obj.items, 1, FALSE)
  ELSE << >>

\* the calls of encryptObject one pass of the loop body makes (lines 486
\* and 491), payloads being the buffers handed over
LoggedCalls(payloads, objectNum, generationNum, key) ==
  [k \in 1..Len(payloads) |->
     [objectNum |-> objectNum, generationNum |-> generationNum,
      key |-> key, data |-> payloads[k]]]

\* lines 495-503; P holds the 32 bits of the permissions as <<hi, lo>>
EncryptDict(perm, oKey, uKey) ==
  PDFDict(<< Entry("/Filter", PDFName("/Standard")),
             Entry("/V", PDFNumber(2)),
             Entry("/R", PDFNumber(3)),
             Entry("/Length", PDFNumber(128)),
             Entry("/P", [PDFNumber(0) EXCEPT !.value = perm]),
             Entry("/O", PDFHexString(bytesToHex(oKey))),
             Entry("/U", PDFHexString(bytesToHex(uKey))) >>)

\* context.register: the reference after the largest object number
RECURSIVE LargestObjectNumber(_)
LargestObjectNumber(objects) ==
  IF objects = << >> THEN 0
  ELSE LET rest == LargestObjectNumber(Tail(objects))
           n == Head(objects).ref.objectNumber
       IN  IF n > rest THEN n ELSE rest

NextRef(objects) == PDFRef(LargestObjectNumber(objects) + 1, Num(0))

\* (the message of the cause left out)
RethrownBare(cause) == Error("Failed to encrypt PDF")

\* new Error(`Failed to encrypt PDF: ${error.message}`)
Rethrown(cause) == Error("Failed to encrypt PDF: " \o cause.message)

\* (the dictionary registered while objects are still to be encrypted)
LoopFinishedEarly(l) == l.index >= l.indirectObjects

\* the for-of loop of lines 471-492 has gone through indirectObjects
LoopFinished(l) == l.index > l.indirectObjects

\* encryptPDF(pdfBytes, userPassword, ownerPassword) is called, in an
\* environment with or without crypto.getRandomValues
EncryptPDFCall(pdfBytes, user, owner, secure) ==
  /\ step = "idle"
  /\ step' = "load"
  /\ args' = [pdfBytes |-> pdfBytes, userPassword |-> user,
              ownerPassword |-> owner, secure |-> secure]
  /\ UNCHANGED << rc4Vars, fnVars, kdfVars, callVars, pdfDoc, loaded, locals,
                  log, caught, outcome >>

\* await PDFDocument.load(pdfBytes, ...) gives the document
LoadResolves ==
  /\ step = "load"
  /\ args.pdfBytes.parses
  /\ step' = "fileId"
  /\ pdfDoc' = args.pdfBytes.doc
  /\ loaded' = args.pdfBytes.doc
  /\ UNCHANGED << rc4Vars, fnVars, kdfVars, callVars, args, locals, log,
                  caught, outcome >>

\* await PDFDocument.load(pdfBytes, ...) throws
LoadRejects ==
  /\ step = "load"
  /\ ~args.pdfBytes.parses
  /\ step' = "catch"
  /\ caught' = LoadError
  /\ UNCHANGED << rc4Vars, fnVars, kdfVars, callVars, args, pdfDoc, loaded,
                  locals, log, outcome >>

\* lines 430-435: the identifier of the trailer
ReadFileId ==
  /\ step = "fileId"
  /\ HasFileId(pdfDoc.trailer.ID)
  /\ step' = "keys"
  /\ locals' = [locals EXCEPT !.fileId = ExistingFileId(pdfDoc.trailer.ID),
                              !.idSource = "trailer"]
  /\ UNCHANGED << rc4Vars, fnVars, kdfVars, callVars, args, pdfDoc, loaded,
                  log, caught, outcome >>

\* lines 436-453: an identifier is generated and put into the trailer; the
\* source is crypto when typeof crypto !== 'undefined' &&
\* crypto.getRandomValues
GenerateFileId(drawn) ==
  /\ step = "fileId"
  /\ ~HasFileId(pdfDoc.trailer.ID)
  /\ step' = "keys"
  /\ locals' = [locals EXCEPT !.fileId = RandomBytes(args.secure, drawn),
                              !.idSource = IF args.secure THEN "crypto"
                                           ELSE "Math.random",
                              !.drawn = drawn]
  /\ pdfDoc' = [pdfDoc EXCEPT !.trailer.ID =
                  GeneratedID(RandomBytes(args.secure, drawn))]
  /\ UNCHANGED << rc4Vars, fnVars, kdfVars, callVars, args, loaded, log,
                  caught, outcome >>

\* the keys of lines 457-466
KeysOf(user, owner, id, oKey) ==
  [ownerKey |-> oKey,
   encryptionKey |-> computeEncryptionKey(user, oKey, AllowAll, id)]

\* lines 456-469: the keys, and the indirect objects enumerated
ComputeKeys ==
  /\ step = "keys"
  /\ step' = "walk"
  /\ LET k == KeysOf(args.userPassword, args.ownerPassword, locals.fileId,
                     computeOwnerKey(args.ownerPassword, args.userPassword))
     IN  locals' = [locals EXCEPT
                      !.ownerKey = k.ownerKey,
                      !.encryptionKey = k.encryptionKey,
                      !.userKey = computeUserKey(k.encryptionKey,
                                                 locals.fileId),
                      !.indirectObjects = Len(pdfDoc.objects),
                      !.index = 1]
  /\ UNCHANGED << rc4Vars, fnVars, kdfVars, callVars, args, pdfDoc, loaded,
                  log, caught, outcome >>

\* one pass of the loop, lines 472-491: filter.asString is not a function
WalkThrows ==
  /\ step = "walk"
  /\ ~LoopFinished(locals)
  /\ FilterThrows(pdfDoc.objects[locals.index].obj)
  /\ step' = "catch"
  /\ caught' = AsStringError
  /\ UNCHANGED << rc4Vars, fnVars, kdfVars, callVars, args, pdfDoc, loaded,
                  locals, log, outcome >>

\* one pass of the loop: continue at the encryption dictionary
WalkSkips ==
  /\ step = "walk"
  /\ ~LoopFinished(locals)
  /\ IsEncryptionDictionary(pdfDoc.objects[locals.index].obj)
  /\ locals' = [locals EXCEPT !.index = @ + 1]
  /\ UNCHANGED << rc4Vars, fnVars, kdfVars, callVars, step, args, pdfDoc,
                  loaded, log, caught, outcome >>

\* the object as one pass of the loop leaves it: obj.contents =
\* encryptObject(obj.contents, ...) for a stream (lines 484-488), then
\* encryptStringsInObject (line 491)
WalkedObject(obj, objectNum, generationNum, key) ==
  encryptStringsInObject(
    IF obj.kind = "PDFRawStream"
      THEN [obj EXCEPT !.value =
              encryptObject(obj.value, objectNum, generationNum, key)]
      ELSE obj,
    objectNum, generationNum, key)

\* one pass of the loop: the contents and the strings are encrypted
WalkEncrypts ==
  /\ step = "walk"
  /\ ~LoopFinished(locals)
  /\ ~FilterThrows(pdfDoc.objects[locals.index].obj)
  /\ ~IsEncryptionDictionary(pdfDoc.objects[locals.index].obj)
  /\ LET o == pdfDoc.objects[locals.index]
         objectNum == o.ref.objectNumber
         generationNum == OrZero(o.ref.generationNumber)
     IN  /\ pdfDoc' = [pdfDoc EXCEPT !.objects[locals.index].obj =
                         WalkedObject(o.obj, objectNum, generationNum,
                                      locals.encryptionKey)]
         /\ log' = log \o LoggedCalls(
                      (IF o.obj.kind = "PDFRawStream" THEN << o.obj.value >>
                       ELSE << >>) \o StringPayloads(o.obj),
                      objectNum, generationNum, locals.encryptionKey)
  /\ locals' = [locals EXCEPT !.index = @ + 1]
  /\ UNCHANGED << rc4Vars, fnVars, kdfVars, callVars, step, args, loaded,
                  caught, outcome >>

\* lines 494-509: the /Encrypt dictionary is made, registered and named in
\* the trailer
RegisterEncrypt ==
  /\ step = "walk"
  /\ LoopFinished(locals)
  /\ step' = "save"
  /\ pdfDoc' = [pdfDoc EXCEPT
                  !.objects = Append(@,
                    [ref |-> NextRef(pdfDoc.objects),
                     obj |-> EncryptDict(AllowAll, locals.ownerKey,
                                         locals.userKey)]),
                  !.trailer.Encrypt = NextRef(pdfDoc.objects)]
  /\ UNCHANGED << rc4Vars, fnVars, kdfVars, callVars, args, loaded, locals,
                  log, caught, outcome >>

\* await pdfDoc.save(...) gives the bytes, which encryptPDF returns
SaveResolves ==
  /\ step = "save"
  /\ step' = "returned"
  /\ outcome' = [state |-> "resolved", doc |-> pdfDoc, error |-> NoError]
  /\ UNCHANGED << rc4Vars, fnVars, kdfVars, callVars, args, pdfDoc, loaded,
                  locals, log, caught >>

\* await pdfDoc.save(...) throws
SaveRejects ==
  /\ step = "save"
  /\ step' = "catch"
  /\ caught' = SaveError
  /\ UNCHANGED << rc4Vars, fnVars, kdfVars, callVars, args, pdfDoc, loaded,
                  locals, log, outcome >>

\* lines 518-521: the catch clause
Catch ==
  /\ step = "catch"
  /\ step' = "thrown"
  /\ outcome' = [state |-> "rejected", doc |-> NoDoc,
                 error |-> Rethrown(caught)]
  /\ UNCHANGED << rc4Vars, fnVars, kdfVars, callVars, args, pdfDoc, loaded,
                  locals, log, caught >>

NextPdf ==
  \/ \E pdfBytes \in PdfFiles, pw \in PdfPasswords, secure \in BOOLEAN :
       EncryptPDFCall(pdfBytes, pw[1], pw[2], secure)
  \/ LoadResolves
  \/ LoadRejects
  \/ ReadFileId
  \/ \E drawn \in RandomIds : GenerateFileId(drawn)
  \/ ComputeKeys
  \/ WalkThrows
  \/ WalkSkips
  \/ WalkEncrypts
  \/ RegisterEncrypt
  \/ SaveResolves
  \/ SaveRejects
  \/ Catch

Next == NextRC4 \/ NextFn \/ NextCalls \/ NextPdf

\* the cipher instance on its own
SpecRC4 == Init /\ [][NextRC4]_vars

\* the functions on their own
SpecFn == Init /\ [][NextFn]_vars

\* the calls of encryptObject on their own
SpecCalls == Init /\ [][NextCalls]_vars

\* encryptPDF on its own
SpecPdf == Init /\ [][NextPdf]_vars

\* all of them; they share no state, and each is checked under its own
\* specification above
Spec == Init /\ [][Next]_vars

----------------------------------------------------------------------------
(* Properties of the RC4 instance (under SpecRC4).                         *)

\* C1: RC4 round trip. When a second, freshly constructed instance has the
\* same non-empty key as the instance before it, and its first call is handed
\* what the first call of that instance returned, it returns the buffer that
\* call was given: new RC4(key).process(new RC4(key).process(data)) = data.
RoundTrip ==
  ( /\ prev.set
    /\ calls # << >>
    /\ Len(cipherKey) > 0
    /\ prev.key = cipherKey
    /\ calls[1].in = prev.out )
  => calls[1].out = prev.in

\* a round trip of the longest buffer, the ciphertext differing from it
RoundTripWitness ==
  /\ prev.set
  /\ calls # << >>
  /\ prev.key = KeyKey
  /\ cipherKey = KeyKey
  /\ Len(prev.in) >= 3
  /\ prev.in = Prefix(Plaintext, Len(prev.in))
  /\ prev.out # prev.in
  /\ calls[1].in = prev.out
  /\ calls[1].out = prev.in

\* The keystream as the algorithm is published: from the table s and the
\* cursors i, j, the next n keystream bytes.
RECURSIVE Keystream(_, _, _, _)
Keystream(s, i, j, n) ==
  IF n = 0 THEN << >>
  ELSE LET i1 == (i + 1) % 256
           j1 == (j + s[i1 + 1]) % 256
           s1 == [x \in 1..256 |->
                    IF x = i1 + 1 THEN s[j1 + 1]
                    ELSE IF x = j1 + 1 THEN s[i1 + 1] ELSE s[x]]
       IN  << s1[((s1[i1 + 1] + s1[j1 + 1]) % 256) + 1] >>
             \o Keystream(s1, i1, j1, n - 1)

RECURSIVE BitXor(_, _)
\* the exclusive or of two naturals, bit by bit
BitXor(a, b) ==
  IF a = 0 /\ b = 0 THEN 0
  ELSE ((a + b) % 2) + 2 * BitXor(a \div 2, b \div 2)

RECURSIVE Inputs(_, _)
\* what the first n calls were given, and what they returned, end to end
Inputs(cs, n) == IF n = 0 THEN << >> ELSE Inputs(cs, n - 1) \o cs[n].in
RECURSIVE Outputs(_, _)
Outputs(cs, n) == IF n = 0 THEN << >> ELSE Outputs(cs, n - 1) \o cs[n].out

\* the keystream bytes 1..n of the instance constructed from cipherKey
KeystreamOf(key, n) == Keystream(Ksa(key), 0, 0, n)

\* C10: process returns a buffer as long as its input (the empty one
\* included), and output byte k is input byte k XOR the keystream byte of the
\* step i := i+1, j := j+s[i], swap, s[(s[i]+s[j]) mod 256], the cursors
\* starting at 0 after the key schedule and going on from call to call.
ProcessIsKeystreamXor ==
  /\ \A n \in 1..Len(calls) : Len(calls[n].out) = Len(calls[n].in)
  /\ calls # << >> =>
       LET ins == Inputs(calls, Len(calls))
           outs == Outputs(calls, Len(calls))
           ks == KeystreamOf(cipherKey, Len(ins))
       IN  /\ Len(outs) = Len(ins)
           /\ \A k \in 1..Len(ins) : outs[k] = BitXor(ins[k], ks[k])

\* "Plaintext" cut to three bytes under "Key" gives BB F3 16, and a second
\* call on the same instance has been made, an empty one or not
ProcessWitness ==
  /\ Len(calls) = 2
  /\ cipherKey = KeyKey
  /\ calls[1].in = Prefix(Plaintext, 3)
  /\ calls[1].out = <<187, 243, 22>>
  /\ calls[2].in = Prefix(Plaintext, 2)
  /\ calls[2].out # calls[1].out

\* C11 as stated: a key of length zero is rejected by the constructor, so no
\* instance made from one ever returns a buffer from process.
EmptyKeyRejected == calls # << >> => Len(cipherKey) > 0

\* what a new instance with the key of the live one returns for the input of
\* call c
FreshOutput(c) == RC4Once(cipherKey, calls[c].in)

RECURSIVE BytesBefore(_)
\* the number of bytes the live instance had processed before call c
BytesBefore(c) == IF c = 1 THEN 0 ELSE BytesBefore(c - 1) + Len(calls[c - 1].in)

\* C18 as stated: a call made on an instance that has processed a buffer
\* before returns something else than a new instance with the same key
\* returns for the same input.
ReusedDiffersFromFresh ==
  \A c \in 2..Len(calls) :
    Len(cipherKey) > 0 => calls[c].out # FreshOutput(c)

\* C18 as amended: an instance that has processed m bytes goes on with
\* keystream byte m+1: byte k of what a later call returns differs from byte
\* k of what a new instance with the same key returns exactly where
\* keystream byte m+k differs from keystream byte k; the two are equal when
\* m = 0 or the input is empty.
ReusedContinuesKeystream ==
  \A c \in 2..Len(calls) :
    Len(cipherKey) > 0 =>
      LET m == BytesBefore(c)
          n == Len(calls[c].in)
          ks == KeystreamOf(cipherKey, m + n)
          fresh == FreshOutput(c)
      IN  /\ Len(calls[c].out) = Len(fresh)
          /\ \A k \in 1..n :
               BitXor(calls[c].out[k], fresh[k]) = BitXor(ks[m + k], ks[k])
          /\ (m = 0 \/ n = 0) => calls[c].out = fresh

\* "Pla" processed twice by one instance: the second output is not BB F3 16
ReusedWitness ==
  /\ Len(calls) = 2
  /\ cipherKey = KeyKey
  /\ calls[1].in = Prefix(Plaintext, 3)
  /\ calls[2].in = Prefix(Plaintext, 3)
  /\ calls[1].out = <<187, 243, 22>>
  /\ calls[2].out # <<187, 243, 22>>
  /\ calls[2].out # FreshOutput(2)

\* C19: after the key schedule and after any calls of process, the table of
\* an instance made from a non-empty key holds each of 0..255 exactly once,
\* and both cursors are in 0..255.
TableIsPermutation ==
  (phase # "none" /\ Len(cipherKey) > 0) =>
    /\ Len(cipher.s) = 256
    /\ {cipher.s[x] : x \in 1..256} = 0..255
    /\ cipher.i \in 0..255
    /\ cipher.j \in 0..255

\* two calls made, the cursors moved on
TableWitness ==
  /\ Len(calls) = 2
  /\ cipherKey = Prefix(PADDING, 16)
  /\ cipher.i = 5
  /\ cipher.j # 0
  /\ {cipher.s[x] : x \in 1..256} = 0..255

----------------------------------------------------------------------------
(* Properties of the functions (under SpecFn).                             *)

\* the padded form of a password as the Standard Security Handler defines it
PaddedForm(password) ==
  LET e == TextEncode(password)
  IN  IF Len(e) >= 32 THEN SubSeq(e, 1, 32)
      ELSE e \o SubSeq(PADDING, 1, 32 - Len(e))

\* C2: padPassword(p) has exactly 32 bytes: the first 32 bytes of the encoded
\* password when it has 32 or more, else its n bytes followed by the first
\* 32 - n bytes of PADDING; the empty password gives PADDING itself.
PadPasswordContract ==
  pc = "padPassword" =>
    LET e == TextEncode(arg)
    IN  /\ Len(result) = 32
        /\ Len(e) >= 32 => result = SubSeq(e, 1, 32)
        /\ Len(e) < 32 => result = e \o SubSeq(PADDING, 1, 32 - Len(e))
        /\ arg = << >> => result = PADDING

\* eleven euro signs are 33 bytes: the result ends inside the eleventh
PadPasswordWitness ==
  /\ pc = "padPassword"
  /\ arg = RepByte(8364, 11)
  /\ Len(TextEncode(arg)) = 33
  /\ result[31] = 226
  /\ result[32] = 130

RECURSIVE Redigest(_, _, _)
\* h digested n more times, each time the first `take` bytes of the last result
Redigest(n, take, h) ==
  IF h # h THEN h
  ELSE IF n = 0 THEN h
  ELSE IF n = 1 THEN md5(SubSeq(h, 1, take))
  ELSE Redigest(n - (n \div 2), take, Redigest(n \div 2, take, h))

\* the four bytes of the word <<hi, lo>>, least significant first
WordBytes(w) == << w[2] % 256, w[2] \div 256, w[1] % 256, w[1] \div 256 >>

EncryptionKeyReference(up, ok, perms, id) ==
  SubSeq(Redigest(50, 16, md5(PaddedForm(up) \o ok \o WordBytes(perms) \o id)),
         1, 16)

\* C3: computeEncryptionKey is the digest of padPassword(userPassword) ++
\* ownerKey ++ permissions as 4 little-endian bytes ++ fileId, digested 50
\* more times (the first 16 bytes each time); 16 bytes are returned.
EncryptionKeyDerivation ==
  pc = "computeEncryptionKey" =>
    encryptionKey =
      EncryptionKeyReference(userPassword, ownerKey, permissions, fileId)

\* "secret123", no owner password, permissions 0xFFFFFFFC, 16 zero bytes of
\* file identifier
EncryptionKeyWitness ==
  /\ pc = "computeEncryptionKey"
  /\ userPassword = Secret123
  /\ ownerPassword = Null
  /\ permissions = AllowAll
  /\ fileId = Zeros(16)
  /\ encryptionKey = <<26, 237, 50, 184, 19, 55, 239, 138, 104, 42, 162, 52,
                       194, 219, 172, 245>>

\* key with every byte XOR k, as long as key
XoredKey(key, k) == SubSeq([j \in 1..Len(key) |-> BitXor(key[j], k)], 1, Len(key))

RECURSIVE Passes(_, _, _, _)
\* data through the passes k = first .. last, each a fresh cipher keyed by
\* key XOR k, the output of one the input of the next
Passes(first, last, key, data) ==
  IF <<key, data>> # <<key, data>> THEN data
  ELSE IF first > last THEN data
  ELSE IF first = last THEN RC4Once(XoredKey(key, first), data)
  ELSE Passes((first + last) \div 2 + 1, last, key,
              Passes(first, (first + last) \div 2, key, data))

OwnerKeyReference(op, up) ==
  LET effective == IF ~op.isNull /\ Len(op.str) > 0 THEN op.str ELSE up
  IN  Passes(0, 19, Redigest(50, 16, md5(PaddedForm(effective))),
             PaddedForm(up))

\* C4: computeOwnerKey takes ownerPassword when it is given and not empty,
\* userPassword otherwise; the base key is the digest of its padded form
\* digested 50 more times; the result is padPassword(userPassword) through
\* 20 chained RC4 passes, pass k keyed by the base key XOR k.
OwnerKeyDerivation ==
  pc = "computeOwnerKey" =>
    ownerKey = OwnerKeyReference(ownerPassword, userPassword)

\* the owner password given as the empty string: the user password stands in
OwnerKeyWitness ==
  /\ pc = "computeOwnerKey"
  /\ userPassword = Secret123
  /\ ownerPassword = Str(<< >>)
  /\ ownerKey = <<106, 196, 125, 148, 144, 220, 96, 199, 117, 189, 229, 196,
                  4, 121, 228, 65, 40, 111, 54, 64, 157, 147, 94, 62, 12,
                  140, 206, 70, 14, 149, 118, 164>>

UserKeyReference(key, id) ==
  Passes(1, 19, key, RC4Once(key, md5(PADDING \o id)))
    \o <<0, 0, 0, 0, 0, 0, 0, 0, 0, 0, 0, 0, 0, 0, 0, 0>>

\* C5: computeUserKey is the digest of PADDING ++ fileId encrypted under
\* fileKey, then through 19 more passes keyed by fileKey XOR i (i = 1..19, a
\* key as long as fileKey), followed by 16 zero bytes.
UserKeyDerivation ==
  pc = "computeUserKey" => userKey = UserKeyReference(fileKey, fileId)

\* a file key of five bytes
UserKeyWitness ==
  /\ pc = "computeUserKey"
  /\ Len(fileKey) = 5
  /\ Len(userKey) = 32
  /\ SubSeq(userKey, 1, 16) # Zeros(16)
  /\ SubSeq(userKey, 17, 32) = Zeros(16)

ObjectKeyReference(n, g, key) ==
  SubSeq(md5(key \o << n % 256, (n \div 256) % 256, (n \div 65536) % 256,
                      g % 256, (g \div 256) % 256 >>),
         1, Min(Len(key) + 5, 16))

\* C6: encryptObject is RC4, keyed by the first min(len(fileKey) + 5, 16)
\* bytes of the digest of fileKey ++ objectNum as 3 little-endian bytes ++
\* generationNum as 2 little-endian bytes, applied to data.
EncryptObjectDerivation ==
  pc = "encryptObject" =>
    enc.result =
      RC4Once(ObjectKeyReference(enc.objectNum, enc.generationNum, fileKey),
              enc.data)

\* "hello" as object 66051 (0x010203), generation 1029 (0x0405)
EncryptObjectWitness ==
  /\ pc = "encryptObject"
  /\ enc.data = Hello
  /\ enc.objectNum = 66051
  /\ enc.generationNum = 1029
  /\ Len(enc.result) = 5
  /\ enc.result # Hello

\* the (object number, generation number) pairs other than the one encrypted
OtherRefs == ObjectRefs \ {<<enc.objectNum, enc.generationNum>>}

\* C7 as stated: any two distinct (object number, generation number) pairs
\* give different per-object keys under one file key.
ObjectKeysAllDistinct ==
  pc = "encryptObject" =>
    \A ref \in OtherRefs : ObjectKey(ref[1], ref[2], fileKey) # enc.objectKey

\* C7 as amended: two pairs that differ in the low 24 bits of the object
\* number or in the low 16 bits of the generation number give different
\* per-object keys under one file key; so do (1,0) and (2,0), (1,0) and (1,1).
ObjectKeysDistinct ==
  pc = "encryptObject" =>
    \A ref \in OtherRefs :
      ( \/ ref[1] % Pow2(24) # enc.objectNum % Pow2(24)
        \/ ref[2] % Pow2(16) # enc.generationNum % Pow2(16) )
      => ObjectKey(ref[1], ref[2], fileKey) # enc.objectKey

\* object (1,0) encrypted: its key is neither that of (2,0) nor that of (1,1)
ObjectKeysWitness ==
  /\ pc = "encryptObject"
  /\ enc.objectNum = 1
  /\ enc.generationNum = 0
  /\ enc.objectKey # ObjectKey(2, 0, fileKey)
  /\ enc.objectKey # ObjectKey(1, 1, fileKey)

\* published digests: of n times "a" ...
Md5OfAs ==
  { <<0, <<212, 29, 140, 217, 143, 0, 178, 4, 233, 128, 9, 152, 236, 248, 66, 126>> >>,
    <<1, <<12, 193, 117, 185, 192, 241, 182, 168, 49, 195, 153, 226, 105, 119, 38, 97>> >>,
    <<55, <<239, 23, 114, 182, 223, 249, 161, 34, 53, 133, 82, 149, 74, 208, 223, 101>> >>,
    <<56, <<59, 12, 138, 199, 3, 248, 40, 176, 76, 108, 25, 112, 6, 209, 114, 24>> >>,
    <<57, <<101, 43, 144, 109, 96, 175, 150, 132, 78, 189, 33, 182, 116, 243, 94, 147>> >>,
    <<63, <<176, 101, 33, 243, 145, 83, 214, 24, 85, 6, 6, 190, 41, 116, 102, 213>> >>,
    <<64, <<1, 72, 66, 212, 128, 181, 113, 73, 90, 74, 3, 99, 121, 63, 115, 103>> >>,
    <<65, <<199, 67, 164, 94, 13, 46, 106, 149, 203, 133, 154, 218, 224, 36, 132, 53>> >>,
    <<119, <<138, 123, 208, 115, 46, 214, 162, 140, 231, 95, 109, 171, 201, 14, 22, 19>> >>,
    <<120, <<95, 97, 192, 204, 173, 76, 172, 68, 199, 95, 245, 5, 225, 241, 229, 55>> >>,
    <<121, <<246, 172, 252, 162, 212, 124, 135, 242, 177, 76, 160, 56, 35, 77, 54, 20>> >> }

\* ... and of "", "abc", "message digest", the alphabet and the 56 bytes
\* "abcdbcdecdefdefgefghfghighijhijkijkljklmklmnlmnomnopnopq"
Md5Vectors ==
  { <<BufferArg(RepByte(97, v[1])), v[2]>> : v \in Md5OfAs }
    \cup
  { <<StringArg(<< >>),
      <<212, 29, 140, 217, 143, 0, 178, 4, 233, 128, 9, 152, 236, 248, 66, 126>> >>,
    <<StringArg(Abc),
      <<144, 1, 80, 152, 60, 210, 79, 176, 214, 150, 63, 125, 40, 225, 127, 114>> >>,
    <<StringArg(MessageDigest),
      <<249, 107, 105, 125, 124, 183, 147, 141, 82, 90, 47, 49, 170, 241, 97, 208>> >>,
    <<StringArg(Alphabet),
      <<195, 252, 211, 215, 97, 146, 228, 0, 125, 251, 73, 108, 202, 103, 225, 59>> >>,
    <<BufferArg(Nist56),
      <<130, 21, 239, 7, 150, 162, 11, 202, 170, 225, 22, 211, 135, 108, 102, 74>> >> }

\* C8: md5 gives the published digests: of the empty input, of "abc", and of
\* inputs of 55, 56, 57, 63, 64 and 65 bytes, where the padding goes from one
\* block to two.
Md5ReferenceVectors ==
  pc = "md5" => \A v \in Md5Vectors : arg = v[1] => result = v[2]

\* 56 bytes: the length field no longer fits the first block
Md5Witness ==
  /\ pc = "md5"
  /\ arg = BufferArg(Nist56)
  /\ result = <<130, 21, 239, 7, 150, 162, 11, 202, 170, 225, 22, 211, 135,
               108, 102, 74>>

\* C9: the lengths of the values returned: md5 16 bytes, padPassword 32,
\* computeOwnerKey 32, computeEncryptionKey 16, computeUserKey 32, and the
\* key handed to RC4 in encryptObject min(len(fileKey) + 5, 16), at most 16.
OutputLengths ==
  /\ pc = "md5" => Len(result) = 16
  /\ pc = "padPassword" => Len(result) = 32
  /\ pc \in {"computeOwnerKey", "computeEncryptionKey", "computeUserKey",
             "encryptObject"} => Len(ownerKey) = 32
  /\ pc \in {"computeEncryptionKey", "computeUserKey", "encryptObject"}
       => Len(encryptionKey) = 16
  /\ pc \in {"computeUserKey", "encryptObject"} => Len(userKey) = 32
  /\ pc = "encryptObject" =>
       /\ Len(enc.objectKey) = Min(Len(fileKey) + 5, 16)
       /\ Len(enc.objectKey) <= 16

\* a file key of five bytes gives an object key of ten
OutputLengthsWitness ==
  /\ pc = "encryptObject"
  /\ Len(ownerKey) = 32
  /\ Len(encryptionKey) = 16
  /\ Len(userKey) = 32
  /\ Len(fileKey) = 5
  /\ Len(enc.objectKey) = 10

\* byte k (k = 0..7, least significant first) of the 64-bit number 8 * n,
\* for n below 2^31
BitLengthByte(n, k) ==
  IF k = 0 THEN (n % 32) * 8
  ELSE IF k <= 4 THEN (n \div Pow2(8 * k - 3)) % 256
  ELSE 0

\* C17 as stated: the padded message is the input, one byte 0x80, zero bytes
\* up to a length of 56 modulo 64, then 8 * n as a 64-bit little-endian
\* number; its length is the smallest multiple of 64 that is at least n + 9.
Md5Padding ==
  pc \in {"md5", "md5Long"} =>
    LET n == pre.msgLen
        padded == pre.msgLenPadded
    IN  /\ padded % 64 = 0
        /\ padded >= n + 9
        /\ padded - 64 < n + 9
        /\ \A k \in 1..8 : pre.lengthField[k] = BitLengthByte(n, k - 1)
        /\ pc = "md5" =>
             /\ Len(pre.msg) = padded
             /\ SubSeq(pre.msg, 1, n) = md5Bytes(arg)
             /\ pre.msg[n + 1] = 128
             /\ \A k \in (n + 2)..(padded - 8) : pre.msg[k] = 0
             /\ SubSeq(pre.msg, padded - 7, padded) = pre.lengthField

----------------------------------------------------------------------------
(* Properties of the calls of encryptObject (under SpecCalls).             *)

\* C14: encryptObject keeps no state between calls: whatever calls were made
\* before and whatever calls are in progress, a call returns RC4, under the
\* key of its own object number, generation number and file key, of its own
\* data; two calls with the same arguments return the same.
EncryptObjectStateless ==
  \A f \in Frames :
    frames[f].pc = "done" =>
      /\ frames[f].result =
           RC4Once(ObjectKeyReference(frames[f].objectNum,
                                      frames[f].generationNum,
                                      frames[f].encryptionKey),
                   frames[f].data)
      /\ \A g \in Frames :
           ( /\ frames[g].pc = "done"
             /\ frames[g].data = frames[f].data
             /\ frames[g].objectNum = frames[f].objectNum
             /\ frames[g].generationNum = frames[f].generationNum
             /\ frames[g].encryptionKey = frames[f].encryptionKey )
           => frames[g].result = frames[f].result

\* "hello" as object 7, generation 0 under the file key of "secret123" gives
\* 75 63 2C DA 9E, as the third call begun, while a call for object 8 is
\* in progress
StatelessWitness ==
  /\ ncalls = 3
  /\ frames[1].pc = "done"
  /\ frames[1].data = Hello
  /\ frames[1].objectNum = 7
  /\ frames[1].generationNum = 0
  /\ frames[1].encryptionKey = GoldenKey
  /\ frames[1].result = <<117, 99, 44, 218, 158>>
  /\ frames[2].pc = "keyed"
  /\ frames[2].objectNum = 8

----------------------------------------------------------------------------
(* Properties of encryptPDF (under SpecPdf).                               *)

\* the failures that load, the walk and save raise
Failures == {LoadError, AsStringError, SaveError}

\* the message of wrapped begins with the words of the wrapper and ends
\* with the message of cause
Carries(wrapped, cause) ==
  \E prefix \in {"Failed to encrypt PDF: "} :
    wrapped.message = prefix \o cause.message

\* C12: a failure raised while loading, walking or saving goes to the catch
\* clause, whose only step rejects the promise with one error, "Failed to
\* encrypt PDF: " followed by the message of the failure; after a failure
\* the promise is never resolved, and it is resolved only when none was
\* raised.
FailureIsWrapped ==
  /\ [](/\ step \in {"catch", "thrown"} =>
             caught \in Failures /\ outcome.state # "resolved"
        /\ step = "thrown" =>
             outcome.state = "rejected" /\ Carries(outcome.error, caught)
        /\ outcome.state = "resolved" => caught = NoError
        /\ outcome.state = "rejected" => step = "thrown")
  /\ [][/\ step = "catch" => step' = "thrown" /\ outcome'.state = "rejected"
        /\ caught # NoError => caught' = caught /\ step' \in {"catch", "thrown"}
        /\ step = "thrown" => UNCHANGED outcome]_vars

\* the second object of the walk has raised a failure, re-thrown wrapped
FailureWitness ==
  /\ step = "thrown"
  /\ caught = AsStringError
  /\ outcome.state = "rejected"
  /\ outcome.error.message =
       "Failed to encrypt PDF: filter.asString is not a function"
  /\ locals.index = 2

\* C13: when the document loaded has no file identifier, the step after
\* load is never the catch clause: the identifier is the 16 bytes the random
\* source gave, crypto.getRandomValues when the environment has it and
\* Math.random otherwise; the trailer names it twice, in hexadecimal; and
\* the keys the loop starts with are derived from it.
MissingIdGenerated ==
  /\ [](loaded \in Documents /\ loaded.trailer.ID = NoID
          /\ step \notin {"idle", "load", "fileId"} =>
          /\ Len(locals.fileId) = 16
          /\ locals.fileId = locals.drawn
          /\ locals.idSource = (IF args.secure THEN "crypto" ELSE "Math.random")
          /\ caught \in {NoError, AsStringError, SaveError}
          /\ pdfDoc.trailer.ID.kind = "Array"
          /\ Len(pdfDoc.trailer.ID.items) = 2
          /\ \A k \in 1..2 :
               /\ pdfDoc.trailer.ID.items[k].kind = "PDFHexString"
               /\ Len(pdfDoc.trailer.ID.items[k].value) = 32
               /\ hexToBytes(pdfDoc.trailer.ID.items[k].value) = locals.fileId
          /\ step = "walk" /\ locals.index = 1 =>
               /\ locals.encryptionKey =
                    EncryptionKeyReference(args.userPassword, locals.ownerKey,
                                           AllowAll, locals.fileId)
               /\ locals.userKey =
                    UserKeyReference(locals.encryptionKey, locals.fileId))
  /\ [][step = "fileId" => step' = "keys" /\ caught' = NoError]_vars

\* a document without identifier, in an environment without crypto, has
\* been encrypted to the end with the identifier A5 A5 ... from Math.random
MissingIdWitness ==
  /\ step = "returned"
  /\ loaded = DocPlain
  /\ ~args.secure
  /\ locals.idSource = "Math.random"
  /\ locals.fileId = RepByte(165, 16)
  /\ outcome.state = "resolved"
  /\ outcome.doc.trailer.ID.items[1].value = RepByte(97, 1) \o RepByte(53, 1)
       \o SubSeq(outcome.doc.trailer.ID.items[1].value, 3, 32)

\* the positions inside an object: the indices of the entries or elements
\* gone through from the object itself, << >>
RECURSIVE Paths(_)
Paths(v) ==
  {<< >>} \cup UNION {{<< k >> \o q : q \in Paths(v.items[k].val)} :
                       k \in 1..Len(v.items)}

RECURSIVE ValueAt(_, _)
ValueAt(v, p) ==
  IF p = << >> THEN v ELSE ValueAt(v.items[p[1]].val, Tail(p))

\* p goes through an entry stored under Length, Filter or DecodeParms
RECURSIVE UnderReserved(_, _)
UnderReserved(v, p) ==
  /\ p # << >>
  /\ \/ v.kind \in {"PDFDict", "PDFRawStream"}
          /\ v.items[p[1]].key \in {"/Length", "/Filter", "/DecodeParms"}
     \/ UnderReserved(v.items[p[1]].val, Tail(p))

\* the bytes a reader of the file finds in a string or a stream
StoredBytes(v) ==
  IF v.kind = "PDFString" THEN asBytes(v.value)
  ELSE IF v.kind = "PDFHexString" THEN hexToBytes(v.value)
  ELSE v.value

HoldsPayload(v) == v.kind \in {"PDFString", "PDFHexString", "PDFRawStream"}

\* the enumerated objects the loop has gone through and not skipped
Processed ==
  {k \in 1..Len(loaded.objects) :
     /\ step \in {"walk", "save", "returned"}
     /\ k < locals.index
     /\ ~IsEncryptionDictionary(loaded.objects[k].obj)}

\* C15: once the loop has gone through an enumerated object n g, every
\* string and every stream payload in it (those under Length, Filter and
\* DecodeParms and the encryption dictionary set aside) holds the RC4
\* ciphertext of what it held when the document was loaded, under the key
\* of (n, g or 0): encrypted once, none left in plaintext.
EveryPayloadEncrypted ==
  \A k \in Processed :
    \A p \in Paths(loaded.objects[k].obj) :
      (/\ ~UnderReserved(loaded.objects[k].obj, p)
       /\ HoldsPayload(ValueAt(loaded.objects[k].obj, p)))
      => StoredBytes(ValueAt(pdfDoc.objects[k].obj, p)) =
           RC4Once(ObjectKeyReference(
                     loaded.objects[k].ref.objectNumber,
                     OrZero(loaded.objects[k].ref.generationNumber),
                     locals.encryptionKey),
                   StoredBytes(ValueAt(loaded.objects[k].obj, p)))

\* p is reached from v through dictionaries and arrays only
RECURSIVE ThroughDictsAndArrays(_, _)
ThroughDictsAndArrays(v, p) ==
  \/ p = << >>
  \/ /\ v.kind \in {"PDFDict", "PDFArray"}
     /\ ThroughDictsAndArrays(v.items[p[1]].val, Tail(p))

\* the enumerated objects the loop has gone through, skipped or not
Passed ==
  {k \in 1..Len(loaded.objects) :
     step \in {"walk", "save", "returned"} /\ k < locals.index}

\* C16: in an object the loop has gone through, whatever is stored under
\* Length, Filter or DecodeParms, at any depth, is as it was loaded; a
\* dictionary whose Filter is /Standard is as it was loaded, whole; the
\* shape of every object is kept; and every other string reached through
\* dictionaries and arrays has been visited: its value is the hexadecimal
\* text of the ciphertext of the bytes it held.
WalkFrame ==
  \A k \in Passed :
    LET before == loaded.objects[k].obj
        after == pdfDoc.objects[k].obj
    IN  /\ Paths(after) = Paths(before)
        /\ IsEncryptionDictionary(before) => after = before
        /\ \A p \in Paths(before) :
             /\ ValueAt(after, p).kind = ValueAt(before, p).kind
             /\ UnderReserved(before, p) =>
                  ValueAt(after, p) = ValueAt(before, p)
             /\ (/\ ~IsEncryptionDictionary(before)
                 /\ ~UnderReserved(before, p)
                 /\ ThroughDictsAndArrays(before, p)
                 /\ ValueAt(before, p).kind \in {"PDFString", "PDFHexString"})
                => /\ ValueAt(after, p).value # ValueAt(before, p).value
                   /\ hexToBytes(ValueAt(after, p).value) =
                        RC4Once(ObjectKeyReference(
                                  loaded.objects[k].ref.objectNumber,
                                  OrZero(loaded.objects[k].ref.generationNumber),
                                  locals.encryptionKey),
                                StoredBytes(ValueAt(before, p)))

\* the catalog of the sample document after its pass: the string under
\* Length and the one inside DecodeParms, two levels down, as loaded; the
\* title and the string beside DecodeParms visited
WalkFrameWitness ==
  /\ step = "walk"
  /\ loaded = DocPlain
  /\ locals.index = 2
  /\ ValueAt(pdfDoc.objects[1].obj, <<3>>) = PDFString(<<76>>)
  /\ ValueAt(pdfDoc.objects[1].obj, <<4, 3, 1, 1>>) = PDFString(<<107>>)
  /\ ValueAt(pdfDoc.objects[1].obj, <<2>>).value # <<72, 105>>
  /\ Len(ValueAt(pdfDoc.objects[1].obj, <<4, 3, 2>>).value) = 6

\* the /Encrypt dictionary the trailer names, once it names one
Registered == pdfDoc.trailer.Encrypt # NoRef
EncryptObjects ==
  {k \in 1..Len(pdfDoc.objects) : pdfDoc.objects[k].ref = pdfDoc.trailer.Encrypt}

\* C20: the loop starts with the file key, O and U computed and they stay
\* as they are; while the loop has objects left the trailer names no
\* /Encrypt dictionary; the dictionary is registered once the loop is over,
\* under a reference that was not enumerated, O and U in it being ownerKey
\* and userKey in hexadecimal, untouched from then on; every call of
\* encryptObject was made with the one file key, and none on O or U.
EncryptRegisteredLast ==
  /\ [](/\ step = "walk" =>
             /\ Len(locals.ownerKey) = 32
             /\ Len(locals.encryptionKey) = 16
             /\ Len(locals.userKey) = 32
             /\ ~Registered
             /\ Len(pdfDoc.objects) = locals.indirectObjects
        /\ Registered =>
             /\ step \in {"save", "returned", "catch", "thrown"}
             /\ locals.index = locals.indirectObjects + 1
             /\ EncryptObjects = {locals.indirectObjects + 1}
             /\ \A k \in EncryptObjects :
                  /\ k = Len(pdfDoc.objects)
                  /\ IsEncryptionDictionary(pdfDoc.objects[k].obj)
                  /\ hexToBytes(Get(pdfDoc.objects[k].obj, "/O").value) =
                       locals.ownerKey
                  /\ hexToBytes(Get(pdfDoc.objects[k].obj, "/U").value) =
                       locals.userKey
        /\ \A c \in 1..Len(log) :
             /\ log[c].key = locals.encryptionKey
             /\ log[c].data \notin
                  {locals.ownerKey, locals.userKey,
                   bytesToHex(locals.ownerKey), bytesToHex(locals.userKey)}
             /\ \E k \in 1..locals.indirectObjects :
                  log[c].objectNum = pdfDoc.objects[k].ref.objectNumber)
  /\ [][/\ step \in {"walk", "save"} =>
             /\ locals'.ownerKey = locals.ownerKey
             /\ locals'.encryptionKey = locals.encryptionKey
             /\ locals'.userKey = locals.userKey
        /\ Registered => pdfDoc' = pdfDoc /\ log' = log
        /\ log' # log => step = "walk" /\ ~Registered]_vars

\* the sample document encrypted to the end: four calls of encryptObject
\* before the dictionary was registered as object 3
EncryptRegisteredWitness ==
  /\ step = "returned"
  /\ loaded = DocPlain
  /\ Len(log) = 4
  /\ pdfDoc.trailer.Encrypt = PDFRef(3, Num(0))
  /\ Len(Get(pdfDoc.objects[3].obj, "/O").value) = 64
  /\ outcome.doc = pdfDoc

====
